---- MODULE Spec2Model ----
(***************************************************************************)
(* Model of blocks/video/video.js: the video teaser block.                 *)
(*                                                                         *)
(* Strings are sequences of one-character strings, so that the regular    *)
(* expressions of the source are modelled by what they match.             *)
(***************************************************************************)
EXTENDS Integers, Sequences, FiniteSets, TLC

VARIABLES
  videoHref,  \* block -> the href of the block's video link
  modal,      \* block -> the modal subtree decorate built for it
  open,       \* block -> the modal carries the class "open"
  ytFrame,    \* block -> the element with id ytFrame-<videoId> in its pane
  video,      \* block -> the native video element of its pane
  scriptTags, \* the SDK script elements injected into the page
  YT,         \* window.YT is defined
  onYouTubePlayerAPIReady, \* window.onYouTubePlayerAPIReady
  player,     \* the module-level variable player
  lastRequest,\* the block of the latest open that had to wait for the SDK
  event,      \* what the handler that ran last did
  arg,        \* pure-function specification: the href under test
  ret         \* pure-function specification: the results computed for it

vars == << videoHref, modal, open, ytFrame, video, scriptTags, YT,
           onYouTubePlayerAPIReady, player, lastRequest, event, arg, ret >>

\* ------------------------------------------------------------------------
\* Bounds
\* ------------------------------------------------------------------------

\* An href of the pure-function specification is made of at most this many
\* fragments of Parts.
MaxParts == 3

\* The number of video blocks on the page, in document order 1..NumBlocks.
NumBlocks == 2

\* The native video loops over the positions 0..VideoDuration.
VideoDuration == 2

\* The model stops injecting SDK script elements once the page holds this
\* many of them.
MaxScriptTags == 2

\* ------------------------------------------------------------------------
\* Characters and strings
\* ------------------------------------------------------------------------

\* JavaScript null / undefined where a string is expected.  No string the
\* model produces in these positions is empty: the capture group of ytExp
\* needs at least one character and the type names are not empty.
Null == <<>>

Undefined == <<>>

S_youtube == <<"y","o","u","t","u","b","e">>

S_external == <<"e","x","t","e","r","n","a","l">>

S_null == <<"n","u","l","l">>

\* The fragments hrefs are built from.
Parts ==
  { <<"h","t","t","p","s",":","/","/">>,
    <<"h","t","t","p","s",":","/","/","w","w","w",".">>,
    <<"y","o","u","t","u",".","b","e","/">>,
    <<"y","o","u","t","u","b","e",".","c","o","m","/">>,
    <<"v","i","m","e","o",".","c","o","m","/">>,
    <<"y","o","u","t","u","b","e","-","c","o","m","/">>,
    <<"?","v","=">>,
    <<"&","v","=">>,
    <<"e","m","b","e","d","/">>,
    <<"v","/">>,
    <<"1","/">>,
    <<"a","b">>,
    <<"#">> }

RECURSIVE HrefsOf(_)
HrefsOf(n) ==
  IF n = 0 THEN { <<>> }
  ELSE LET shorter == HrefsOf(n - 1)
       IN  shorter \cup { h \o p : h \in shorter, p \in Parts }

Hrefs == HrefsOf(MaxParts) \ { <<>> }

\* ------------------------------------------------------------------------
\* getVideoType (video.js 8-26)
\* ------------------------------------------------------------------------

\* A regular expression that is a literal: lit matches s at position i.
MatchAt(lit, s, i) ==
  /\ i + Len(lit) - 1 <= Len(s)
  /\ \A k \in 1..Len(lit) : s[i + k - 1] = lit[k]

\* RegExp.prototype.test for an unanchored literal: scan the start positions
\* from the left.
RECURSIVE TestFrom(_, _, _)
TestFrom(lit, s, i) ==
  IF i + Len(lit) - 1 > Len(s) THEN FALSE
  ELSE IF MatchAt(lit, s, i) THEN TRUE
  ELSE TestFrom(lit, s, i + 1)

RegexTest(lit, s) == TestFrom(lit, s, 1)

videoTypeMap ==
  << [ kind |-> S_youtube,
       allowedUrls |-> << <<"y","o","u","t","u","b","e",".","c","o","m">>,
                          <<"y","o","u","t","u",".","b","e">> >> ],
     [ kind |-> S_external,
       allowedUrls |-> << <<"v","i","m","e","o",".","c","o","m">> >> ] >>

\* Array.prototype.some over the entry's regular expressions.
SomeMatches(allowedUrls, href) ==
  \E k \in 1..Len(allowedUrls) : RegexTest(allowedUrls[k], href)

\* Array.prototype.find over Object.entries(map): the index of the first
\* entry with a matching expression, 0 when there is none.
RECURSIVE FindEntryFrom(_, _, _)
FindEntryFrom(map, href, k) ==
  IF k > Len(map) THEN 0
  ELSE IF SomeMatches(map[k].allowedUrls, href) THEN k
  ELSE FindEntryFrom(map, href, k + 1)

getVideoTypeIn(map, href) ==
  LET videoEntry == FindEntryFrom(map, href, 1)
  IN  IF videoEntry # 0 THEN map[videoEntry].kind ELSE Undefined

\* A variant that tests the external entry before the youtube entry.
getVideoType_ExternalFirst(href) ==
  getVideoTypeIn(<< videoTypeMap[2], videoTypeMap[1] >>, href)

getVideoType(href) == getVideoTypeIn(videoTypeMap, href)

\* ------------------------------------------------------------------------
\* getYouTubeId (video.js 33-40)
\* ------------------------------------------------------------------------

\* The alternatives of the non-capturing group of ytExp, in the order the
\* expression tries them: [?&]v= | /embed/ | /1/ | /v/ |
\* https://(www.)?youtu.be/  (the optional www. is greedy).
ytExpPrefixes ==
  << <<"?","v","=">>,
     <<"&","v","=">>,
     <<"/","e","m","b","e","d","/">>,
     <<"/","1","/">>,
     <<"/","v","/">>,
     <<"h","t","t","p","s",":","/","/","w","w","w",".","y","o","u","t","u",".","b","e","/">>,
     <<"h","t","t","p","s",":","/","/","y","o","u","t","u",".","b","e","/">> >>

\* The characters the capturing group [^&\n?#]+ refuses.
ytExpStop == { "&", "\n", "?", "#" }

\* The end of the greedy run of accepted characters that starts at j
\* (j - 1 when the run is empty).
RECURSIVE RunEnd(_, _)
RunEnd(s, j) ==
  IF j > Len(s) \/ s[j] \in ytExpStop THEN j - 1 ELSE RunEnd(s, j + 1)

\* The capture of the first alternative, from the k-th on, that matches at i
\* and is followed by a non-empty run; Null when no alternative does.
RECURSIVE CaptureAt(_, _, _, _)
CaptureAt(prefixes, s, i, k) ==
  IF k > Len(prefixes) THEN Null
  ELSE LET j == i + Len(prefixes[k])
       IN  IF MatchAt(prefixes[k], s, i) /\ RunEnd(s, j) >= j
           THEN SubSeq(s, j, RunEnd(s, j))
           ELSE CaptureAt(prefixes, s, i, k + 1)

\* String.prototype.match with a non-global expression: the leftmost start
\* position with a match wins.
RECURSIVE MatchFrom(_, _, _)
MatchFrom(prefixes, s, i) ==
  IF i > Len(s) THEN Null
  ELSE IF CaptureAt(prefixes, s, i, 1) # Null THEN CaptureAt(prefixes, s, i, 1)
  ELSE MatchFrom(prefixes, s, i + 1)

getYouTubeIdWith(prefixes, href) == MatchFrom(prefixes, href, 1)

\* A variant whose expression lacks the /1/ alternative.
getYouTubeId_NoSlashOne(href) ==
  getYouTubeIdWith(<< ytExpPrefixes[1], ytExpPrefixes[2], ytExpPrefixes[3],
                      ytExpPrefixes[5], ytExpPrefixes[6], ytExpPrefixes[7] >>,
                   href)

getYouTubeId(href) == getYouTubeIdWith(ytExpPrefixes, href)

\* ------------------------------------------------------------------------
\* The state of the page
\* ------------------------------------------------------------------------

Blocks == 1..NumBlocks

NoModal == [ present |-> FALSE, videoType |-> Null, videoId |-> Null, hasVideo |-> FALSE ]

NoCallback == [ set |-> FALSE, element |-> Null, videoId |-> Null ]

NoPlayer ==
  [ live |-> FALSE, element |-> Null, videoId |-> Null, host |-> 0,
    ready |-> FALSE, playing |-> FALSE ]

NoVideo == [ paused |-> TRUE, currentTime |-> 0 ]

NoEvent ==
  [ handler |-> "decorate", block |-> 0, wasOpen |-> FALSE, position |-> 0,
    rebuilt |-> FALSE, injected |-> FALSE, created |-> <<>>, stopped |-> <<>>,
    removed |-> 0, threw |-> FALSE ]

NoResult == [ typeDone |-> FALSE, type |-> Undefined, idDone |-> FALSE, id |-> Null ]

\* ------------------------------------------------------------------------
\* The pure functions applied to bounded hrefs
\* ------------------------------------------------------------------------

\* The page is idle while the pure functions are exercised.
PageIdle ==
  /\ videoHref = [b \in Blocks |-> <<"#">>]
  /\ modal = [b \in Blocks |-> NoModal]
  /\ open = [b \in Blocks |-> FALSE]
  /\ ytFrame = [b \in Blocks |-> "none"]
  /\ video = [b \in Blocks |-> NoVideo]
  /\ scriptTags = 0
  /\ YT = FALSE
  /\ onYouTubePlayerAPIReady = NoCallback
  /\ player = NoPlayer
  /\ lastRequest = 0
  /\ event = NoEvent

PageVars ==
  << videoHref, modal, open, ytFrame, video, scriptTags, YT,
     onYouTubePlayerAPIReady, player, lastRequest, event >>

InitHref ==
  /\ PageIdle
  /\ arg \in Hrefs
  /\ ret = NoResult

CallGetVideoType ==
  /\ ~ret.typeDone
  /\ ret' = [ret EXCEPT !.typeDone = TRUE, !.type = getVideoType(arg)]
  /\ UNCHANGED << arg, PageVars >>

CallGetYouTubeId ==
  /\ ~ret.idDone
  /\ ret' = [ret EXCEPT !.idDone = TRUE, !.id = getYouTubeId(arg)]
  /\ UNCHANGED << arg, PageVars >>

NextHref == CallGetVideoType \/ CallGetYouTubeId

SpecHref == InitHref /\ [][NextHref]_vars

\* ------------------------------------------------------------------------
\* decorate (video.js 176-231), buildVideoModal (146-174)
\* ------------------------------------------------------------------------

\* The hrefs of the video links a page of the model may carry.
PageHrefs ==
  { <<"h","t","t","p","s",":","/","/","y","o","u","t","u",".","b","e","/","a","b">>,
    <<"h","t","t","p","s",":","/","/","y","o","u","t","u","b","e",".","c","o","m",
      "/","w","a","t","c","h","?","v","=","c","d">>,
    <<"h","t","t","p","s",":","/","/","y","o","u","t","u","b","e",".","c","o","m","/">>,
    <<"h","t","t","p","s",":","/","/","a","b","/","c",".","m","p","4">>,
    <<"h","t","t","p","s",":","/","/","v","i","m","e","o",".","c","o","m","/","c","d">> }

\* The string an attribute holds after setAttribute(name, v).
AttrString(v) == IF v = Null THEN S_null ELSE v

\* The modal subtree: the attributes of its content pane and whether the
\* pane holds a native video element.
buildVideoModal(href, videoType) ==
  IF videoType = S_youtube
  THEN [ present |-> TRUE, videoType |-> S_youtube,
         videoId |-> AttrString(getYouTubeId(href)), hasVideo |-> FALSE ]
  ELSE [ present |-> TRUE, videoType |-> Null, videoId |-> Null, hasVideo |-> TRUE ]

\* A variant that builds a modal only for a youtube link.
decorate_LinkForUnknown(href) ==
  LET videoType == getVideoType(href)
  IN  IF videoType = S_youtube THEN buildVideoModal(href, videoType) ELSE NoModal

\* A variant that builds a modal for every link.
decorate_ModalForAll(href) == buildVideoModal(href, getVideoType(href))

\* What decorate leaves in the block for a link with this href: a modal with
\* both controls wired to toggleVideoOverlay unless the type is external.
decorate(href) ==
  LET videoType == getVideoType(href)
  IN  IF videoType # S_external THEN buildVideoModal(href, videoType) ELSE NoModal

Init ==
  /\ videoHref \in [Blocks -> PageHrefs]
  /\ modal = [b \in Blocks |-> decorate(videoHref[b])]
  /\ open = [b \in Blocks |-> FALSE]
  /\ ytFrame = [b \in Blocks |-> "none"]
  /\ video = [b \in Blocks |-> NoVideo]
  /\ scriptTags = 0
  /\ YT = FALSE
  /\ onYouTubePlayerAPIReady = NoCallback
  /\ player = NoPlayer
  /\ lastRequest = 0
  /\ event = NoEvent
  /\ arg = <<>>
  /\ ret = NoResult

\* ------------------------------------------------------------------------
\* loadYouTubePlayer (video.js 42-65)
\* ------------------------------------------------------------------------

\* The template literal `ytFrame-${videoId}`.
ytFrameId(videoId) == <<"y","t","F","r","a","m","e","-">> \o videoId

IsYoutube(b) == modal[b].present /\ modal[b].videoType = S_youtube

\* document.getElementById: the first block in document order whose pane
\* holds an element of that id, 0 when no element has it.
getElementById(frames, id) ==
  LET owners == { c \in Blocks : /\ IsYoutube(c)
                                 /\ frames[c] # "none"
                                 /\ ytFrameId(modal[c].videoId) = id }
  IN  IF owners = {} THEN 0 ELSE CHOOSE c \in owners : \A d \in owners : c <= d

\* The call new window.YT.Player(element, {videoId, ...}) in a document whose
\* hosting elements are frames.
CreateCall(frames, element, videoId) ==
  [ element |-> element, videoId |-> videoId, host |-> getElementById(frames, element) ]

NewPlayer(call) ==
  [ live |-> TRUE, element |-> call.element, videoId |-> call.videoId,
    host |-> call.host, ready |-> FALSE, playing |-> FALSE ]

\* loadYouTubePlayer(element, videoId): the player built in the element of
\* that id replaces the element by an iframe of the same id, and the new
\* instance replaces the reference held by player.  The constructor is SDK
\* code: when no element has the id it either throws, and the assignment
\* does not happen, or returns an instance bound to nothing.
loadYouTubePlayer(frames, element, videoId) ==
  LET call == CreateCall(frames, element, videoId)
  IN  /\ ytFrame' = IF call.host # 0 THEN [frames EXCEPT ![call.host] = "iframe"]
                    ELSE frames
      /\ player' \in IF call.host # 0 THEN { NewPlayer(call) }
                     ELSE { NewPlayer(call), player }

\* onPlayerReady (video.js 51-53): the SDK reports the instance held by
\* player ready, and the handler starts playback.
onPlayerReady ==
  /\ player.live
  /\ player.host # 0
  /\ ~player.ready
  /\ player' = [player EXCEPT !.ready = TRUE, !.playing = TRUE]
  /\ event' = [NoEvent EXCEPT !.handler = "onReady"]
  /\ UNCHANGED << videoHref, modal, open, ytFrame, video, scriptTags, YT,
                  onYouTubePlayerAPIReady, lastRequest, arg, ret >>

\* ------------------------------------------------------------------------
\* toggleVideoOverlay (video.js 73-114)
\* ------------------------------------------------------------------------

\* What every run of toggleVideoOverlay on block b records of itself.
ToggleEvent(b, control) ==
  [NoEvent EXCEPT !.handler = control, !.block = b, !.wasOpen = open[b],
                  !.position = video[b].currentTime]

\* player?.stopVideo(): the instance stopVideo is called on, if there is one.
stopVideo == IF player.live THEN [player EXCEPT !.playing = FALSE] ELSE player

\* A variant of lines 81-88 that also drops the pending ready-callback.
CloseYoutube_CancelsPending(b, control) ==
  LET iFrame == getElementById(ytFrame, ytFrameId(modal[b].videoId))
  IN  /\ player' = stopVideo
      /\ ytFrame' = IF iFrame # 0 THEN [ytFrame EXCEPT ![iFrame] = "none"] ELSE ytFrame
      /\ onYouTubePlayerAPIReady' = NoCallback
      /\ event' = [ToggleEvent(b, control) EXCEPT
                     !.stopped = IF player.live
                                   THEN << [element |-> player.element, host |-> player.host] >>
                                   ELSE <<>>,
                     !.removed = iFrame]
      /\ UNCHANGED << video, scriptTags, YT, lastRequest >>

\* Lines 81-88: the open modal is a youtube modal.
CloseYoutube(b, control) ==
  LET iFrame == getElementById(ytFrame, ytFrameId(modal[b].videoId))
  IN  /\ player' = stopVideo
      /\ ytFrame' = IF iFrame # 0 THEN [ytFrame EXCEPT ![iFrame] = "none"] ELSE ytFrame
      /\ event' = [ToggleEvent(b, control) EXCEPT
                     !.stopped = IF player.live
                                   THEN << [element |-> player.element, host |-> player.host] >>
                                   ELSE <<>>,
                     !.removed = iFrame]
      /\ UNCHANGED << video, scriptTags, YT, onYouTubePlayerAPIReady, lastRequest >>

\* A variant of lines 89-92 that pauses without resetting the position.
CloseVideo_NoReset(b, control) ==
  /\ video' = [video EXCEPT ![b].paused = TRUE]
  /\ event' = ToggleEvent(b, control)
  /\ UNCHANGED << ytFrame, scriptTags, YT, onYouTubePlayerAPIReady, player, lastRequest >>

\* Lines 89-92: the open modal holds a native video.
CloseVideo(b, control) ==
  /\ video' = [video EXCEPT ![b] = [paused |-> TRUE, currentTime |-> 0]]
  /\ event' = ToggleEvent(b, control)
  /\ UNCHANGED << ytFrame, scriptTags, YT, onYouTubePlayerAPIReady, player, lastRequest >>

\* A variant of lines 95-109 that keeps a ready-callback already pending.
OpenYoutube_KeepsFirstCallback(b, control) ==
  LET videoId == modal[b].videoId
      rebuilt == [ytFrame EXCEPT ![b] = "div"]
  IN  IF YT
      THEN /\ loadYouTubePlayer(rebuilt, ytFrameId(videoId), videoId)
           /\ event' = [ToggleEvent(b, control) EXCEPT
                          !.rebuilt = TRUE,
                          !.created = << CreateCall(rebuilt, ytFrameId(videoId), videoId) >>]
           /\ UNCHANGED << video, scriptTags, YT, onYouTubePlayerAPIReady, lastRequest >>
      ELSE /\ scriptTags < MaxScriptTags
           /\ ytFrame' = rebuilt
           /\ scriptTags' = scriptTags + 1
           /\ onYouTubePlayerAPIReady' =
                IF onYouTubePlayerAPIReady.set THEN onYouTubePlayerAPIReady
                ELSE [ set |-> TRUE, element |-> ytFrameId(videoId), videoId |-> videoId ]
           /\ lastRequest' = b
           /\ event' = [ToggleEvent(b, control) EXCEPT !.rebuilt = TRUE, !.injected = TRUE]
           /\ UNCHANGED << video, YT, player >>

\* Lines 95-109: the closed modal is a youtube modal.
OpenYoutube(b, control) ==
  LET videoId == modal[b].videoId
      rebuilt == [ytFrame EXCEPT ![b] = "div"]
  IN  IF YT
      THEN /\ loadYouTubePlayer(rebuilt, ytFrameId(videoId), videoId)
           /\ event' = [ToggleEvent(b, control) EXCEPT
                          !.rebuilt = TRUE,
                          !.created = << CreateCall(rebuilt, ytFrameId(videoId), videoId) >>]
           /\ UNCHANGED << video, scriptTags, YT, onYouTubePlayerAPIReady, lastRequest >>
      ELSE /\ scriptTags < MaxScriptTags
           /\ ytFrame' = rebuilt
           /\ scriptTags' = scriptTags + 1
           /\ onYouTubePlayerAPIReady' =
                [ set |-> TRUE, element |-> ytFrameId(videoId), videoId |-> videoId ]
           /\ lastRequest' = b
           /\ event' = [ToggleEvent(b, control) EXCEPT !.rebuilt = TRUE, !.injected = TRUE]
           /\ UNCHANGED << video, YT, player >>

\* Lines 110-112: the closed modal holds a native video.
OpenVideo(b, control) ==
  /\ video' = [video EXCEPT ![b].paused = FALSE]
  /\ event' = ToggleEvent(b, control)
  /\ UNCHANGED << ytFrame, scriptTags, YT, onYouTubePlayerAPIReady, player, lastRequest >>

\* Lines 74-75 on a block without a .video-modal element: querySelector
\* returns null and modal.querySelector throws a TypeError out of the
\* function before anything is changed.
ThrowTypeError(b, control) ==
  /\ event' = [ToggleEvent(b, control) EXCEPT !.threw = TRUE]
  /\ UNCHANGED << open, ytFrame, video, scriptTags, YT,
                  onYouTubePlayerAPIReady, player, lastRequest >>

\* A variant in which the control decides the target state: the close control
\* closes (nothing to do on a closed modal) and the play control opens.
toggleVideoOverlay_ByControl(b, control) ==
  /\ modal[b].present
  /\ IF control = "close"
     THEN IF open[b]
          THEN /\ open' = [open EXCEPT ![b] = FALSE]
               /\ IF modal[b].videoType = S_youtube
                  THEN CloseYoutube(b, control)
                  ELSE CloseVideo(b, control)
          ELSE /\ event' = ToggleEvent(b, control)
               /\ UNCHANGED << open, ytFrame, video, scriptTags, YT,
                               onYouTubePlayerAPIReady, player, lastRequest >>
     ELSE /\ open' = [open EXCEPT ![b] = TRUE]
          /\ IF modal[b].videoType = S_youtube
             THEN OpenYoutube(b, control)
             ELSE OpenVideo(b, control)
  /\ UNCHANGED << videoHref, modal, arg, ret >>

\* toggleVideoOverlay(block), run because the named control was activated.
toggleVideoOverlay(b, control) ==
  /\ IF ~modal[b].present
     THEN ThrowTypeError(b, control)
     ELSE IF open[b]
     THEN /\ open' = [open EXCEPT ![b] = FALSE]
          /\ IF modal[b].videoType = S_youtube
             THEN CloseYoutube(b, control)
             ELSE CloseVideo(b, control)
     ELSE /\ open' = [open EXCEPT ![b] = TRUE]
          /\ IF modal[b].videoType = S_youtube
             THEN OpenYoutube(b, control)
             ELSE OpenVideo(b, control)
  /\ UNCHANGED << videoHref, modal, arg, ret >>

\* The click listener of the play button (video.js 222).
ClickPlay(b) == modal[b].present /\ toggleVideoOverlay(b, "play")

\* The click listener of the close button (video.js 218).
ClickClose(b) == modal[b].present /\ toggleVideoOverlay(b, "close")

\* The exported toggleVideoOverlay called by another module of the page on a
\* block that holds no modal (video.js 73); on a block with a modal the call
\* does what a click does.
CallToggle(b) == ~modal[b].present /\ toggleVideoOverlay(b, "call")

\* An external link keeps its anchor, which opens in a new tab (video.js
\* 132-135): no listener of the block runs.
ClickLink(b) ==
  /\ ~modal[b].present
  /\ event' = [NoEvent EXCEPT !.handler = "link", !.block = b]
  /\ UNCHANGED << videoHref, modal, open, ytFrame, video, scriptTags, YT,
                  onYouTubePlayerAPIReady, player, lastRequest, arg, ret >>

\* The SDK, once an injected script has loaded, defines window.YT and calls
\* window.onYouTubePlayerAPIReady (video.js 106-108), once.
ApiReady ==
  /\ scriptTags > 0
  /\ ~YT
  /\ YT' = TRUE
  /\ IF onYouTubePlayerAPIReady.set
     THEN /\ loadYouTubePlayer(ytFrame, onYouTubePlayerAPIReady.element,
                               onYouTubePlayerAPIReady.videoId)
          /\ event' = [NoEvent EXCEPT
                         !.handler = "apiReady",
                         !.created = << CreateCall(ytFrame, onYouTubePlayerAPIReady.element,
                                                   onYouTubePlayerAPIReady.videoId) >>]
     ELSE /\ event' = [NoEvent EXCEPT !.handler = "apiReady"]
          /\ UNCHANGED << ytFrame, player >>
  /\ UNCHANGED << videoHref, modal, open, video, scriptTags,
                  onYouTubePlayerAPIReady, lastRequest, arg, ret >>

\* The native video of block b, started by play() and looping (video.js
\* 163), advances while it is not paused.
Playback(b) ==
  /\ modal[b].hasVideo
  /\ ~video[b].paused
  /\ video' = [video EXCEPT ![b].currentTime =
                 IF video[b].currentTime < VideoDuration
                   THEN video[b].currentTime + 1 ELSE 0]
  /\ event' = [NoEvent EXCEPT !.handler = "playback", !.block = b]
  /\ UNCHANGED << videoHref, modal, open, ytFrame, scriptTags, YT,
                  onYouTubePlayerAPIReady, player, lastRequest, arg, ret >>

Next ==
  \/ \E b \in Blocks : ClickPlay(b)
  \/ \E b \in Blocks : ClickClose(b)
  \/ \E b \in Blocks : ClickLink(b)
  \/ \E b \in Blocks : CallToggle(b)
  \/ \E b \in Blocks : Playback(b)
  \/ ApiReady
  \/ onPlayerReady

Spec == Init /\ [][Next]_vars

\* ------------------------------------------------------------------------
\* Claims about the page (checked under Spec)
\* ------------------------------------------------------------------------

\* The last handler was toggleVideoOverlay on a modal of this kind.
ToggledYoutube == event.handler \in { "play", "close" } /\ IsYoutube(event.block)

ToggledVideo == event.handler \in { "play", "close" } /\ modal[event.block].hasVideo

\* C1: over any sequence of open and close activations of Youtube modals the
\* SDK script is injected into the page exactly once.
C1_SdkInjectedOnce == scriptTags <= 1

\* C2: at most one PlayerSession, a hosting container with a player instance
\* in it, exists in every reachable state.
C2_AtMostOneSession == Cardinality({ b \in Blocks : ytFrame[b] = "iframe" }) <= 1

\* C3 as stated: activating the close control always leaves the modal Closed
\* and activating the play control always leaves it Open.
C3_ControlSetsState ==
  /\ event.handler = "close" => ~open[event.block]
  /\ event.handler = "play" => open[event.block]

\* C3 amended: activating either control toggles the modal, so the close
\* control leaves it Closed when it was Open and Open when it was Closed, and
\* the play control leaves it Open when it was Closed and Closed when it was
\* Open.
C3_ControlTogglesState ==
  event.handler \in { "play", "close" } => (open[event.block] <=> ~event.wasOpen)

\* The close control has been activated on a Closed modal, which is now Open.
C3_Witness ==
  /\ event.handler = "close"
  /\ ~event.wasOpen
  /\ open[event.block]

\* C4 as stated: the play control on a Youtube modal that is already Open
\* re-runs the open branch: the modal stays Open, the hosting container is
\* reconstructed, and when the SDK is loaded a second create is issued without
\* a stop of the prior instance.
C4_PlayOnOpenReinitializes ==
  (ToggledYoutube /\ event.handler = "play" /\ event.wasOpen) =>
    /\ open[event.block]
    /\ event.rebuilt
    /\ event.stopped = <<>>
    /\ YT => Len(event.created) = 1

\* C4 amended: the play control on a Youtube modal that is already Open runs
\* the close branch: the modal becomes Closed, stopVideo is called on the
\* player instance if there is one, no hosting container is reconstructed, no
\* SDK script is injected and no create is issued.
C4_PlayOnOpenCloses ==
  (ToggledYoutube /\ event.handler = "play" /\ event.wasOpen) =>
    /\ ~open[event.block]
    /\ ~event.rebuilt
    /\ ~event.injected
    /\ event.created = <<>>
    /\ player.live => (Len(event.stopped) = 1 /\ ~player.playing)

\* The play control has been activated on an Open Youtube modal whose player
\* was playing: the player is stopped and the modal's container removed.
C4_Witness ==
  /\ ToggledYoutube
  /\ event.handler = "play"
  /\ event.wasOpen
  /\ Len(event.stopped) = 1
  /\ event.stopped[1].host = event.block
  /\ event.removed = event.block

\* C5: in every state where a Youtube modal is Closed its content pane holds
\* no hosting container, also when several blocks carry the same video id.
C5_ClosedHasNoContainer ==
  \A b \in Blocks : (IsYoutube(b) /\ ~open[b]) => ytFrame[b] = "none"

\* C6: in every reachable state where a DirectFile modal is Closed its video
\* is paused at position 0, and an open of a Closed DirectFile modal starts at
\* position 0.
C6_ClosedVideoIsReset ==
  /\ \A b \in Blocks : (modal[b].hasVideo /\ ~open[b]) =>
       (video[b].paused /\ video[b].currentTime = 0)
  /\ (ToggledVideo /\ ~event.wasOpen) =>
       (event.position = 0 /\ video[event.block].currentTime = 0)

\* A DirectFile modal whose video had advanced has been closed.
C6_Witness ==
  /\ ToggledVideo
  /\ event.wasOpen
  /\ event.position > 0
  /\ ~open[event.block]

\* The blocks whose pane holds an element of this id.
FramesWithId(id) ==
  { c \in Blocks : IsYoutube(c) /\ ytFrame[c] # "none" /\ ytFrameId(modal[c].videoId) = id }

C10_LatestRequestWins ==
  event.handler = "apiReady" =>
    /\ Len(event.created) = 1
    /\ event.created[1].videoId = modal[lastRequest].videoId
    /\ event.created[1].element = ytFrameId(modal[lastRequest].videoId)

\* The notification has fired after two modals of different video ids were
\* opened while the SDK was loading, and both are still Open.
C10_Witness ==
  /\ event.handler = "apiReady"
  /\ \A b \in { 1, 2 } : IsYoutube(b) /\ open[b]
  /\ modal[1].videoId # modal[2].videoId
  /\ Len(event.created) = 1
  /\ event.created[1].host = lastRequest

\* The type getVideoType gives the link of block b.
TypeOf(b) == getVideoType(videoHref[b])

\* The block a create call was issued for: the block toggled, or the block
\* whose open registered the ready-callback; 0 when the last handler issued
\* no create.
CreatedFor ==
  IF event.created = <<>> THEN 0
  ELSE IF event.handler = "apiReady" THEN lastRequest
  ELSE event.block

\* C11: for a Youtube source whose href yields no video id (getYouTubeId
\* returns null) no create is ever issued for that modal.
C11_NoCreateWithoutId ==
  CreatedFor # 0 => getYouTubeId(videoHref[CreatedFor]) # Null

\* C12 as stated: when classification yields no match the block never has a
\* modal and no toggle handler runs for it.
C12_UnknownHasNoModal ==
  /\ \A b \in Blocks : TypeOf(b) = Undefined => ~modal[b].present
  /\ event.handler \in { "play", "close" } => TypeOf(event.block) # Undefined

\* C12 amended: when classification yields no match decoration treats the
\* href as a direct file: the block gets a modal that holds a native video
\* and no youtube attributes, with both controls wired to the toggle; only a
\* link classified external keeps plain hyperlink behaviour.
C12_UnknownGetsVideoModal ==
  /\ \A b \in Blocks : TypeOf(b) = Undefined =>
       (modal[b].present /\ modal[b].hasVideo /\ modal[b].videoType = Null)
  /\ event.handler = "link" => TypeOf(event.block) = S_external

\* The play control of a block with an unclassified href has opened its modal
\* and started its native video.
C12_Witness ==
  /\ event.handler = "play"
  /\ TypeOf(event.block) = Undefined
  /\ ~event.wasOpen
  /\ open[event.block]
  /\ ~video[event.block].paused

\* C13: a source classified external never reaches the modal state machine:
\* its block has no modal, no toggle handler runs for it, and no activation of
\* its control opens a modal, requests the SDK or creates a player.
C13_ExternalNeverToggles ==
  \A b \in Blocks : TypeOf(b) = S_external =>
    /\ ~modal[b].present
    /\ ~open[b]
    /\ ytFrame[b] = "none"
    /\ lastRequest # b
    /\ player.live => player.host # b
    /\ event.handler \in { "play", "close" } => event.block # b
    /\ event.block = b => (~event.injected /\ event.created = <<>> /\ ~event.rebuilt)

\* The link of an external block has been activated while the SDK was never
\* requested by it.
C13_Witness ==
  /\ event.handler = "link"
  /\ TypeOf(event.block) = S_external
  /\ ~modal[event.block].present
  /\ ~open[event.block]

\* C14: closing a Youtube modal before any player was created raises no
\* error and completes the close: no stop is called, the modal is Closed and
\* its hosting container is removed.
C14_CloseWithoutPlayer ==
  (ToggledYoutube /\ event.wasOpen /\ ~player.live) =>
    /\ ~event.threw
    /\ event.stopped = <<>>
    /\ ~open[event.block]
    /\ ytFrame[event.block] = "none"

\* C15: toggleVideoOverlay on a block whose modal subtree is missing raises
\* no error and leaves all state unchanged.
C15_MissingModalTolerated ==
  (event.handler = "call" /\ ~modal[event.block].present) => ~event.threw

\* C16: once the SDK-ready notification has fired, every Youtube modal that
\* was opened while the SDK was loading and is still Open has a player in its
\* own hosting container.
C16_EveryOpenModalGetsPlayer ==
  event.handler = "apiReady" =>
    \A b \in Blocks : (IsYoutube(b) /\ open[b]) => ytFrame[b] = "iframe"

\* C17: no close of a Youtube modal calls stop on a player bound to the
\* container of another modal that is still Open.
C17_CloseStopsOwnPlayer ==
  (ToggledYoutube /\ event.wasOpen /\ event.stopped # <<>>) =>
    LET h == event.stopped[1].host
    IN  ~(h # 0 /\ h # event.block /\ open[h])

\* ------------------------------------------------------------------------
\* Claims about the pure functions (checked under SpecHref)
\* ------------------------------------------------------------------------

\* sub occurs in s at position i.
OccursAt(sub, s, i) ==
  /\ i >= 1
  /\ i + Len(sub) - 1 <= Len(s)
  /\ SubSeq(s, i, i + Len(sub) - 1) = sub

Contains(s, sub) == \E i \in 1..Len(s) : OccursAt(sub, s, i)

Least(S) == CHOOSE i \in S : \A j \in S : i <= j

\* The characters between position j and the next of & newline ? # (or the
\* end of s).
IdAfter(s, j) ==
  LET stops == { e \in j..Len(s) : s[e] \in { "&", "\n", "?", "#" } }
  IN  IF stops = {} THEN SubSeq(s, j, Len(s))
      ELSE SubSeq(s, j, Least(stops) - 1)

W_youtube_com == <<"y","o","u","t","u","b","e",".","c","o","m">>

W_youtu_be == <<"y","o","u","t","u",".","b","e">>

W_vimeo_com == <<"v","i","m","e","o",".","c","o","m">>

\* C7: classify(href) is Youtube for every href containing youtube.com or
\* youtu.be, ExternalEmbeddable for every href containing vimeo.com and
\* neither Youtube pattern, and Unknown (undefined) for every other href; an
\* href matching both a Youtube and the vimeo pattern is Youtube.
C7_ClassifyByTableOrder ==
  ret.typeDone =>
    ret.type = IF Contains(arg, W_youtube_com) \/ Contains(arg, W_youtu_be)
                 THEN S_youtube
               ELSE IF Contains(arg, W_vimeo_com) THEN S_external
               ELSE Undefined

\* An href with both a Youtube and the vimeo pattern has been classified.
C7_Witness ==
  /\ ret.typeDone
  /\ Contains(arg, W_vimeo_com)
  /\ Contains(arg, W_youtu_be)
  /\ ret.type = S_youtube

\* The four shapes the specification names.
FourShapes ==
  { <<"?","v","=">>, <<"&","v","=">>,
    <<"/","e","m","b","e","d","/">>,
    <<"/","v","/">>,
    <<"h","t","t","p","s",":","/","/","y","o","u","t","u",".","b","e","/">> }

\* The shapes the expression of the source accepts.
SourceShapes ==
  FourShapes \cup
    { <<"/","1","/">>,
      <<"h","t","t","p","s",":","/","/","w","w","w",".","y","o","u","t","u",".","b","e","/">> }

\* The positions of s where a shape of the set starts.
ShapeStarts(shapes, s) ==
  { i \in 1..Len(s) : \E p \in shapes : OccursAt(p, s, i) }

\* The position right after the shape that starts at i.
AfterShape(shapes, s, i) ==
  i + Len(CHOOSE p \in shapes : OccursAt(p, s, i))

\* The positions of s where a shape of the set starts and is followed by at
\* least one character other than & newline ? #.
IdStarts(shapes, s) ==
  { i \in ShapeStarts(shapes, s) : IdAfter(s, AfterShape(shapes, s, i)) # <<>> }

\* C8 as stated: extractId returns the id following the first occurrence of
\* one of exactly four shapes and null for every href with none of them.
C8_FourShapesOnly ==
  ret.idDone =>
    IF ShapeStarts(FourShapes, arg) = {} THEN ret.id = Null
    ELSE ret.id = IdAfter(arg, AfterShape(FourShapes, arg,
                                          Least(ShapeStarts(FourShapes, arg))))

\* C8 amended: extractId returns the run of characters other than & newline
\* ? # that follows the leftmost occurrence, among those followed by at
\* least one such character, of one of the shapes ?v= &v= /embed/ /1/ /v/
\* https://youtu.be/ https://www.youtu.be/, and null when there is no such
\* occurrence, so for every href that contains none of these shapes.
C8_SourceShapes ==
  ret.idDone =>
    /\ IF IdStarts(SourceShapes, arg) = {} THEN ret.id = Null
       ELSE ret.id = IdAfter(arg, AfterShape(SourceShapes, arg,
                                             Least(IdStarts(SourceShapes, arg))))
    /\ ShapeStarts(SourceShapes, arg) = {} => ret.id = Null

\* An id has been extracted from an href that has none of the four shapes.
C8_Witness ==
  /\ ret.idDone
  /\ ShapeStarts(FourShapes, arg) = {}
  /\ Contains(arg, <<"/","1","/">>)
  /\ ret.id = <<"a","b">>

====
